---- MODULE Spec2Model ----
(***************************************************************************)
(* Model of src/python/app/main.py: the "Hello Work API", a FastAPI        *)
(* application with two endpoints, GET / and GET /status.                  *)
(*                                                                         *)
(* The process state is the module global start_time (line 16), the pid    *)
(* the operating system reports (os.getpid(), line 27) and the wall clock  *)
(* that time.time() reads (lines 16 and 26).  time.time() is the wall      *)
(* clock: it normally advances, and it returns a lower value than an       *)
(* earlier call when the system clock is set back in between.  The clock   *)
(* is an integer here; the float arithmetic of line 26 is a subtraction.   *)
(*                                                                         *)
(* A path is the sequence of its tokens: "/status" is <<"/", "status">>,   *)
(* "/status/" is <<"/", "status", "/">>, "/" is <<"/">>.                   *)
(***************************************************************************)
EXTENDS Integers, Sequences, FiniteSets, TLC

VARIABLES
    phase,       \* "import" while main.py is being imported, then "serving"
    start_time,  \* the module global of line 16 (meaningless during import)
    pid,         \* what os.getpid() returns in this process
    clock,       \* what time.time() returns now
    log,         \* the most recent exchanges, oldest first
    inflight     \* per worker thread, the /status call it is in the middle of

vars == <<phase, start_time, pid, clock, log, inflight>>

\* Bounds of the model.
MaxClock == 5

PIDs == {4711, 4712}
Threads == {"t1", "t2"}

Methods == {"GET", "HEAD", "POST"}

ROOT == <<"/">>
STATUS == <<"/", "status">>
OPENAPI == <<"/", "openapi.json">>
DOCS == <<"/", "docs">>
OAUTH2 == <<"/", "docs", "/", "oauth2-redirect">>
REDOC == <<"/", "redoc">>

\* The request paths the model sends.
Paths ==
    { ROOT, STATUS, OPENAPI, DOCS, OAUTH2, REDOC,
      <<"/", "status", "/">>, <<"/", "nonexistent">>, <<"/", "/">> }

----
\* The routing table.

\* FastAPI(title=..., version=...) leaves openapi_url, docs_url,
\* swagger_ui_oauth2_redirect_url and redoc_url at their defaults, so the
\* constructor registers four documentation routes (plain routes: GET, and
\* HEAD with it).
DefaultRoutes ==
    << [path |-> OPENAPI, methods |-> {"GET", "HEAD"}, endpoint |-> "openapi"],
       [path |-> DOCS, methods |-> {"GET", "HEAD"}, endpoint |-> "swagger_ui_html"],
       [path |-> OAUTH2, methods |-> {"GET", "HEAD"}, endpoint |-> "swagger_ui_redirect"],
       [path |-> REDOC, methods |-> {"GET", "HEAD"}, endpoint |-> "redoc_html"] >>

\* @app.get("/") and @app.get("/status"): API routes, GET only.
HelloRoute == [path |-> ROOT, methods |-> {"GET"}, endpoint |-> "hello_work"]
StatusRoute == [path |-> STATUS, methods |-> {"GET"}, endpoint |-> "status"]

Routes == DefaultRoutes \o <<HelloRoute, StatusRoute>>

\* Mutant of Matches: a route matches every path its own path is a prefix of.
MatchesPrefix(route, method, path) ==
    IF Len(path) < Len(route.path) \/ SubSeq(path, 1, Len(route.path)) # route.path
    THEN "NONE"
    ELSE IF method \notin route.methods THEN "PARTIAL"
    ELSE "FULL"

\* A route matches a request fully, on the path only, or not at all.
Matches(route, method, path) ==
    IF route.path # path THEN "NONE"
    ELSE IF method \notin route.methods THEN "PARTIAL"
    ELSE "FULL"

RECURSIVE RStrip(_)
RStrip(path) ==
    IF path # <<>> /\ path[Len(path)] = "/"
    THEN RStrip(SubSeq(path, 1, Len(path) - 1))
    ELSE path

\* The path the router tries when nothing matched: trailing slashes removed,
\* or one added.
RedirectPath(path) ==
    IF path[Len(path)] = "/" THEN RStrip(path) ELSE Append(path, "/")

FirstIndex(S) == CHOOSE i \in S : \A j \in S : i <= j

\* Mutant of Dispatch: a path matched under another method falls through to
\* the not-found fallback.
DispatchNoPartial(method, path) ==
    LET full == {i \in DOMAIN Routes : Matches(Routes[i], method, path) = "FULL"}
    IN  IF full # {} THEN Routes[FirstIndex(full)].endpoint
        ELSE IF path # ROOT
                /\ \E i \in DOMAIN Routes :
                       Matches(Routes[i], method, RedirectPath(path)) # "NONE"
             THEN "redirect_slashes"
        ELSE "not_found"

\* The router's decision for a request: the endpoint of the first full match;
\* else 405 when some route matches the path; else a redirect when the
\* path with its trailing slash toggled matches a route; else 404.
Dispatch(method, path) ==
    LET full == {i \in DOMAIN Routes : Matches(Routes[i], method, path) = "FULL"}
        partial == {i \in DOMAIN Routes : Matches(Routes[i], method, path) = "PARTIAL"}
    IN  IF full # {} THEN Routes[FirstIndex(full)].endpoint
        ELSE IF partial # {} THEN "method_not_allowed"
        ELSE IF path # ROOT
                /\ \E i \in DOMAIN Routes :
                       Matches(Routes[i], method, RedirectPath(path)) # "NONE"
             THEN "redirect_slashes"
        ELSE "not_found"

----
\* The handlers.

\* Mutant of hello_work: the usual greeting.
hello_world == [message |-> "Hello, world"]

\* def hello_work(): return {"message": "Hello, work"}
hello_work == [message |-> "Hello, work"]

\* Mutant of Uptime: the operands swapped.
UptimeReversed(now, started) == started - now

\* uptime = time.time() - start_time
Uptime(now, started) == now - started

\* Mutant of StatusResponse: the pid of the parent (os.getppid()), which is
\* another process.
StatusResponseParentPid(uptime, p) ==
    [status |-> "ok", uptime_seconds |-> uptime, pid |-> p - 1]

\* StatusResponse(status="ok", uptime_seconds=uptime, pid=os.getpid())
StatusResponse(uptime, p) == [status |-> "ok", uptime_seconds |-> uptime, pid |-> p]

\* def status(), with `now` the value its call of time.time() returns.
status(now) == StatusResponse(Uptime(now, start_time), pid)

\* The response to a request the router has dispatched to `target`.
Respond(target, path, now) ==
    CASE target = "hello_work" -> [code |-> 200, body |-> hello_work]
      [] target = "status" -> [code |-> 200, body |-> status(now)]
      [] target = "method_not_allowed" ->
            [code |-> 405, body |-> [detail |-> "Method Not Allowed"]]
      [] target = "redirect_slashes" ->
            [code |-> 307, body |-> [location |-> RedirectPath(path)]]
      [] target = "not_found" -> [code |-> 404, body |-> [detail |-> "Not Found"]]
      [] OTHER -> [code |-> 200, body |-> [document |-> target]]

\* The functions of main.py; every other endpoint is the framework's.
Handlers == {"hello_work", "status"}

\* One exchange as the log keeps it: the request, the response, the function
\* of main.py that ran for it ("none" when none did) and the values its
\* calls of time.time() returned.
Exchange(method, path, target, now) ==
    [method |-> method, path |-> path,
     resp |-> Respond(target, path, now),
     handler |-> IF target \in Handlers THEN target ELSE "none",
     reads |-> IF target = "status" THEN <<now>> ELSE <<>>]

\* The log keeps the last `keep` exchanges.
Remember(entry, keep) ==
    LET all == Append(log, entry)
    IN  IF Len(all) > keep THEN SubSeq(all, Len(all) - keep + 1, Len(all)) ELSE all

Idle == [pc |-> "idle", now |-> 0, uptime |-> 0]

----
\* The process.

Init ==
    /\ phase = "import"
    /\ start_time = 0
    /\ pid \in PIDs
    /\ clock \in 0..MaxClock
    /\ log = <<>>
    /\ inflight = [t \in Threads |-> Idle]

\* Importing main.py: start_time = time.time(), and the routes are
\* registered; the server accepts requests only afterwards.
ModuleLoad ==
    /\ phase = "import"
    /\ start_time' = clock
    /\ phase' = "serving"
    /\ UNCHANGED <<pid, clock, log, inflight>>

\* The wall clock advances.
Tick ==
    /\ clock < MaxClock
    /\ clock' = clock + 1
    /\ UNCHANGED <<phase, start_time, pid, log, inflight>>

\* The wall clock is set back (NTP step, administrator).
ClockSetBack ==
    /\ clock > 0
    /\ clock' \in 0..(clock - 1)
    /\ UNCHANGED <<phase, start_time, pid, log, inflight>>

\* Mutant of HandleRequest: status() declares start_time global and stamps it
\* anew on every call.
HandleRequestRestamps(method, path) ==
    /\ phase = "serving"
    /\ log' = Remember(Exchange(method, path, Dispatch(method, path), clock), 2)
    /\ start_time' = IF Dispatch(method, path) = "status" THEN clock ELSE start_time
    /\ UNCHANGED <<phase, pid, clock, inflight>>

\* Mutant of HandleRequest: status() moves start_time up to the clock when it
\* finds the uptime negative.
HandleRequestClamps(method, path) ==
    /\ phase = "serving"
    /\ log' = Remember(Exchange(method, path, Dispatch(method, path), clock), 2)
    /\ start_time' = IF Dispatch(method, path) = "status" /\ clock < start_time
                     THEN clock ELSE start_time
    /\ UNCHANGED <<phase, pid, clock, inflight>>

\* One request handled from arrival to response.
HandleRequest(method, path) ==
    /\ phase = "serving"
    /\ log' = Remember(Exchange(method, path, Dispatch(method, path), clock), 2)
    /\ UNCHANGED <<phase, start_time, pid, clock, inflight>>

Next ==
    \/ ModuleLoad
    \/ Tick
    \/ ClockSetBack
    \/ \E method \in Methods, path \in Paths : HandleRequest(method, path)

Spec == Init /\ [][Next]_vars

----
\* Requests handled concurrently: a worker thread runs status() statement by
\* statement while the other threads and the clock go on.

\* A request arrives on an idle thread.  A request routed to status() enters
\* the handler; every other request is answered at once (hello_work is one
\* return statement, the rest is the router's own response).
Accept(t, method, path) ==
    /\ phase = "serving"
    /\ inflight[t].pc = "idle"
    /\ IF Dispatch(method, path) = "status"
       THEN /\ inflight' = [inflight EXCEPT ![t].pc = "time"]
            /\ UNCHANGED log
       ELSE /\ log' = Remember(Exchange(method, path, Dispatch(method, path), clock), 1)
            /\ UNCHANGED inflight
    /\ UNCHANGED <<phase, start_time, pid, clock>>

\* Line 26, the call time.time().
StatusTime(t) ==
    /\ inflight[t].pc = "time"
    /\ inflight' = [inflight EXCEPT ![t].pc = "subtract", ![t].now = clock]
    /\ UNCHANGED <<phase, start_time, pid, clock, log>>

\* Mutant of StatusSubtract: the value of time.time() is kept in a place the
\* threads share, so the subtraction sees the latest value, not its own.
StatusSubtractShared(t) ==
    /\ inflight[t].pc = "subtract"
    /\ inflight' = [inflight EXCEPT ![t].pc = "return",
                                    ![t].uptime = Uptime(clock, start_time)]
    /\ UNCHANGED <<phase, start_time, pid, clock, log>>

\* Line 26, the read of the global start_time and the subtraction.
StatusSubtract(t) ==
    /\ inflight[t].pc = "subtract"
    /\ inflight' = [inflight EXCEPT ![t].pc = "return",
                                    ![t].uptime = Uptime(inflight[t].now, start_time)]
    /\ UNCHANGED <<phase, start_time, pid, clock, log>>

\* Line 27: os.getpid(), the StatusResponse, and the 200 that carries it.
StatusReturn(t) ==
    /\ inflight[t].pc = "return"
    /\ log' = Remember([method |-> "GET", path |-> STATUS,
                        resp |-> [code |-> 200,
                                  body |-> StatusResponse(inflight[t].uptime, pid)],
                        handler |-> "status",
                        reads |-> <<inflight[t].now>>], 1)
    /\ inflight' = [inflight EXCEPT ![t] = Idle]
    /\ UNCHANGED <<phase, start_time, pid, clock>>

NextConc ==
    \/ ModuleLoad
    \/ Tick
    \/ ClockSetBack
    \/ \E t \in Threads, method \in Methods, path \in Paths : Accept(t, method, path)
    \/ \E t \in Threads : StatusTime(t)
    \/ \E t \in Threads : StatusSubtract(t)
    \/ \E t \in Threads : StatusReturn(t)

SpecConc == Init /\ [][NextConc]_vars

----
\* Properties.

Entries == {log[i] : i \in DOMAIN log}
IsCall(e, method, path) == e.method = method /\ e.path = path
IsStatusCall(e) == IsCall(e, "GET", STATUS)
IsHelloCall(e) == IsCall(e, "GET", ROOT)

\* The paths a route is registered for.
RegisteredPaths == {ROOT, STATUS, OPENAPI, DOCS, OAUTH2, REDOC}

\* C1: every GET /status response is a 200 whose status field is "ok" and
\* whose pid field is the process id the operating system reports; so any two
\* /status responses of the process carry the same pid.
C1_StatusOkAndPid ==
    /\ \A e \in Entries :
           IsStatusCall(e) =>
               /\ e.resp.code = 200
               /\ e.resp.body.status = "ok"
               /\ e.resp.body.pid = pid
    /\ \A e1, e2 \in Entries :
           IsStatusCall(e1) /\ IsStatusCall(e2) => e1.resp.body.pid = e2.resp.body.pid

C1_Witness ==
    /\ Len(log) = 2
    /\ IsStatusCall(log[1]) /\ IsStatusCall(log[2])
    /\ log[1].resp.body.uptime_seconds # log[2].resp.body.uptime_seconds

\* C2: the uptime_seconds of every GET /status response is >= 0, and of two
\* successive GET /status calls the later one reports an uptime_seconds >= the
\* earlier one's, however the clock behaves.
C2_UptimeNonNegativeNonDecreasing ==
    /\ \A e \in Entries : IsStatusCall(e) => e.resp.body.uptime_seconds >= 0
    /\ (Len(log) = 2 /\ IsStatusCall(log[1]) /\ IsStatusCall(log[2]))
           => log[2].resp.body.uptime_seconds >= log[1].resp.body.uptime_seconds

\* C3 as stated: every request other than GET / and GET /status, a request to
\* / or /status under another method included, fails with 404, and 404 is the
\* only error status.
C3_Original_Only404 ==
    \A e \in Entries :
        /\ ~(IsHelloCall(e) \/ IsStatusCall(e)) => e.resp.code = 404
        /\ e.resp.code >= 400 => e.resp.code = 404

\* C3 as amended: a request to / or /status whose method is not GET fails with
\* 405; a request whose path is no registered path, nor a registered path
\* other than / with slashes appended, fails with 404; 404 and 405 are the
\* only error statuses.
C3_WrongMethod405_UnknownPath404 ==
    \A e \in Entries :
        /\ (e.path \in {ROOT, STATUS} /\ e.method # "GET") => e.resp.code = 405
        /\ (e.path # ROOT /\ RStrip(e.path) \notin RegisteredPaths) => e.resp.code = 404
        /\ e.resp.code >= 400 => e.resp.code \in {404, 405}

C3_Witness ==
    /\ Len(log) = 2
    /\ IsCall(log[1], "POST", STATUS) /\ log[1].resp.code = 405
    /\ IsCall(log[2], "POST", <<"/", "nonexistent">>) /\ log[2].resp.code = 404

\* C4: every GET / response is a 200 whose body is exactly
\* {"message": "Hello, work"}, whatever the clock, the start time, the pid
\* and the requests before it.
C4_HelloWork ==
    \A e \in Entries :
        IsHelloCall(e) =>
            /\ e.resp = [code |-> 200, body |-> [message |-> "Hello, work"]]
            /\ e.handler = "hello_work"

C4_Witness ==
    /\ Len(log) = 2
    /\ IsStatusCall(log[1])
    /\ IsHelloCall(log[2])
    /\ clock < start_time

\* C5: the uptime_seconds of a GET /status response is the clock value read
\* while handling the request minus the start time captured at startup: a
\* server started at T0 and asked at T0 + 5 reports 5.
C5_UptimeIsNowMinusStart ==
    \A e \in Entries :
        IsStatusCall(e) =>
            /\ Len(e.reads) = 1
            /\ e.resp.body.uptime_seconds = e.reads[1] - start_time
            /\ (e.reads[1] = start_time + 5 => e.resp.body.uptime_seconds = 5)

C5_Witness ==
    \E e \in Entries :
        /\ IsStatusCall(e)
        /\ e.reads = <<start_time + 5>>
        /\ e.resp.body.uptime_seconds = 5

\* C6 as stated: a GET request to any path other than / and /status returns
\* 404, and no handler runs for it.
C6_Original_GetElsewhere404 ==
    \A e \in Entries :
        (e.method = "GET" /\ e.path \notin {ROOT, STATUS})
            => (e.resp.code = 404 /\ e.handler = "none")

\* C6 as amended: a GET request to a path that is no registered path (/,
\* /status, /openapi.json, /docs, /docs/oauth2-redirect, /redoc), nor a
\* registered path other than / with slashes appended, returns 404, and no
\* handler runs for it.
C6_GetUnregistered404 ==
    \A e \in Entries :
        (e.method = "GET" /\ e.path # ROOT /\ RStrip(e.path) \notin RegisteredPaths)
            => (e.resp.code = 404 /\ e.handler = "none")

C6_Witness ==
    \E e \in Entries :
        /\ IsCall(e, "GET", <<"/", "nonexistent">>)
        /\ e.resp.code = 404
        /\ e.handler = "none"

\* C7: start_time is assigned once, while the module is imported and before
\* any request is served; once the server serves, start_time keeps the value
\* captured at startup.
C7_StartTimeWrittenOnce ==
    /\ [](phase = "import" => log = <<>>)
    /\ [][start_time' # start_time => (phase = "import" /\ phase' = "serving")]_vars
    /\ [][phase = "serving" => (phase' = "serving" /\ start_time' = start_time)]_vars

C7_Witness ==
    /\ phase = "serving"
    /\ Len(log) = 2
    /\ IsStatusCall(log[1]) /\ IsStatusCall(log[2])
    /\ clock # start_time

\* C8: handling a request (GET /, GET /status, or one that is not found)
\* leaves the process state unchanged: the start time, the pid, the phase and
\* the clock.
C8_HandlersChangeNoState ==
    [][log' # log => UNCHANGED <<phase, start_time, pid, clock, inflight>>]_vars

C8_Witness ==
    /\ Len(log) = 2
    /\ IsStatusCall(log[1])
    /\ IsCall(log[2], "GET", <<"/", "nonexistent">>)
    /\ clock < start_time

\* The clock value an exchange read, 0 when it read none.
ReadOf(e) == IF e.reads = <<>> THEN 0 ELSE e.reads[1]

\* C9: under every interleaving of the handlers, each response is the one the
\* request gets when handled alone: the same status code, body and handler,
\* with uptime_seconds the clock value the request read minus start_time.
C9_InterleavingsAgreeWithAlone ==
    \A e \in Entries :
        /\ e = Exchange(e.method, e.path, Dispatch(e.method, e.path), ReadOf(e))
        /\ IsStatusCall(e) =>
               /\ Len(e.reads) = 1
               /\ e.resp.body.uptime_seconds = e.reads[1] - start_time
               /\ e.resp.body.pid = pid

\* A /status call answered while another is between its clock read and its
\* return, the two having read different clock values, neither the current one.
C9_Witness ==
    /\ Len(log) = 1
    /\ IsStatusCall(log[1])
    /\ log[1].reads[1] # clock
    /\ \E t \in Threads :
           /\ inflight[t].pc = "return"
           /\ inflight[t].now # log[1].reads[1]
           /\ inflight[t].now # clock

\* C10: two successive identical requests get the same status code and the
\* same body, but for uptime_seconds, which is equal or larger in the later.
C10_RepeatedRequestsAgree ==
    (Len(log) = 2 /\ IsCall(log[2], log[1].method, log[1].path)) =>
        /\ log[2].resp.code = log[1].resp.code
        /\ IF IsStatusCall(log[1])
           THEN /\ log[2].resp.body.status = log[1].resp.body.status
                /\ log[2].resp.body.pid = log[1].resp.body.pid
                /\ log[2].resp.body.uptime_seconds >= log[1].resp.body.uptime_seconds
           ELSE log[2].resp.body = log[1].resp.body

====
